---- MODULE Spec2Model ----
(***************************************************************************)
(* Model of tf/tfprocess.py (class TFProcess): the weight registry built   *)
(* by construct_net, the exchange-file export save_leelaz_weights, the     *)
(* import replace_weights and the training step process.                   *)
(*                                                                         *)
(* Tensor shapes carry the dimensions of the source (112 input planes,     *)
(* 32*8*8 = 2048, 1858, 128).  A tensor's values are tracked at the probe  *)
(* positions Probe(shape): every operation of the codec is elementwise     *)
(* (one output element is computed from one input element, plus for the    *)
(* normalization shift the variance at the same 1-D position), so the      *)
(* value at a probe position is computed exactly as the code computes it.  *)
(* Values are exact rationals [n |-> numerator, d |-> denominator].        *)
(***************************************************************************)
EXTENDS Integers, Sequences, FiniteSets, TLC

VARIABLES
  RESIDUAL_FILTERS,   \* self.RESIDUAL_FILTERS  (cfg['model']['filters'])
  RESIDUAL_BLOCKS,    \* self.RESIDUAL_BLOCKS   (cfg['model']['residual_blocks'])
  training,           \* self.cfg['training']: total_steps, checkpoint_steps
  weights,            \* self.weights: the export registry, a list of tensors
  batch_norm_count,   \* self.batch_norm_count
  graph,              \* the default graph's variables: name -> shape
  session,            \* self.session: variable name -> current value
  global_step,        \* self.global_step
  files,              \* the file system: file name -> exchange file
  new_weights,        \* the caller's list object handed to replace_weights
  passes,             \* how many calls of replace_weights there have been
  status,             \* how the last call of replace_weights ended
  probe               \* the kernel of the stand-alone rescale specification

vars == <<RESIDUAL_FILTERS, RESIDUAL_BLOCKS, training, weights, batch_norm_count,
          graph, session, global_step, files, new_weights, passes, status,
          probe>>

(***************************************************************************)
(* Bounds of the model.                                                    *)
(***************************************************************************)
MaxFilters == 1      \* filters are drawn from 1..MaxFilters
MaxBlocks == 1       \* residual_blocks are drawn up to MaxBlocks
MaxBuilds == 2       \* calls of init_net in SpecBuild
MaxSteps == 2        \* training steps taken; total_steps of the cfg
MaxPasses == 1       \* calls of replace_weights
MaxVersion == 2      \* version lines 1..MaxVersion of the files read
MaxKernel == 3       \* SpecScale: first-layer kernels of 1..MaxKernel rows and columns
MaxLevel == 3        \* SpecScale: rescales applied one way more than the other
ProbeWidth == 1      \* coordinates tracked at each end of an axis

(***************************************************************************)
(* Program constants.                                                      *)
(***************************************************************************)
VERSION == 2
num_inputs == 112
rule50_input == 109
rule50_scale == 99
filter_area == 9
EpsDen == 100000     \* epsilon = 1e-5 = 1 / EpsDen

(***************************************************************************)
(* Exact rational arithmetic.                                              *)
(***************************************************************************)
RECURSIVE GCD(_, _)
GCD(a, b) == IF b = 0 THEN a ELSE GCD(b, a % b)

Abs(a) == IF a < 0 THEN -a ELSE a

\* the rational a/b in lowest terms with a positive denominator (b # 0)
Rat(a, b) ==
  LET g == GCD(Abs(a), Abs(b))
      s == IF b < 0 THEN -1 ELSE 1
  IN  [n |-> (s * a) \div g, d |-> (s * b) \div g]

Int2Rat(a) == [n |-> a, d |-> 1]

RMul(p, q) ==
  LET g1 == GCD(Abs(p.n), q.d)
      g2 == GCD(Abs(q.n), p.d)
  IN  Rat((p.n \div g1) * (q.n \div g2), (p.d \div g2) * (q.d \div g1))

\* p / q; a division by zero yields the marker value 0/0 (numpy's nan)
RDiv(p, q) ==
  IF q.n = 0 THEN [n |-> 0, d |-> 0]
  ELSE RMul(p, IF q.n < 0 THEN [n |-> -q.d, d |-> -q.n] ELSE [n |-> q.d, d |-> q.n])

RAdd(p, q) ==
  LET g == GCD(p.d, q.d)
  IN  Rat(p.n * (q.d \div g) + q.n * (p.d \div g), (p.d \div g) * q.d)

ISqrt(k) == CHOOSE r \in 0..k : r * r <= k /\ (r + 1) * (r + 1) > k

\* square root; exact on the squares of rationals, which is what the
\* variances of the model make of var + epsilon
RSqrt(q) == Rat(ISqrt(q.n), ISqrt(q.d))

Epsilon == [n |-> 1, d |-> EpsDen]

(***************************************************************************)
(* Shapes, multi-indices (0-based coordinates) and row-major flattening.   *)
(***************************************************************************)
RECURSIVE Prod(_)
Prod(shape) == IF shape = <<>> THEN 1 ELSE Head(shape) * Prod(Tail(shape))

\* row-major flat index of multi-index m in a tensor of the given shape
RECURSIVE Flat(_, _)
Flat(shape, m) ==
  IF shape = <<>> THEN 0
  ELSE Head(m) * Prod(Tail(shape)) + Flat(Tail(shape), Tail(m))

\* the coordinates of an axis of length d that the model tracks: both ends
\* of the axis and, on the axis of the input planes, the rule50 plane and
\* its neighbours
Coords(d) ==
  ((0..(ProbeWidth - 1)) \cup ((d - ProbeWidth)..(d - 1))
     \cup (IF d = num_inputs THEN (rule50_input - 1)..(rule50_input + 1) ELSE {}))
  \cap (0..(d - 1))

RECURSIVE Probe(_)
Probe(shape) ==
  IF shape = <<>> THEN {<<>>}
  ELSE {<<c>> \o m : c \in Coords(Head(shape)), m \in Probe(Tail(shape))}

\* tf.transpose / shape permutation: axis k of the result is axis perm[k] of
\* the argument (perm holds 0-based axis numbers, as in the source)
PermShape(shape, perm) == [k \in 1..Len(perm) |-> shape[perm[k] + 1]]

\* the argument's multi-index that lands on the result's multi-index m
PermSource(m, perm) ==
  [a \in 1..Len(perm) |-> m[CHOOSE k \in 1..Len(perm) : perm[k] + 1 = a]]

Transpose(t, shape, perm) ==
  [m \in Probe(PermShape(shape, perm)) |-> t[PermSource(m, perm)]]

\* the multi-index at row-major flat index i
RECURSIVE Unflat(_, _)
Unflat(shape, i) ==
  IF shape = <<>> THEN <<>>
  ELSE <<i \div Prod(Tail(shape))>> \o Unflat(Tail(shape), i % Prod(Tail(shape)))

\* np.ravel: the row-major value list of a tensor, n values long
Ravel(t, shape) ==
  [n |-> Prod(shape),
   v |-> [i \in {Flat(shape, m) : m \in Probe(shape)} |-> t[Unflat(shape, i)]]]

\* tf.constant(list, shape=shape): the tensor whose row-major list is `line`
Constant(line, shape) == [m \in Probe(shape) |-> line.v[Flat(shape, m)]]

(***************************************************************************)
(* Variable names.  A name is kept as its scope and the rest of it, so     *)
(* that name.endswith(suffix) and name.replace('beta', ...) of the source  *)
(* are a comparison and a replacement of the leaf.                         *)
(***************************************************************************)
Digit(k) == <<"0", "1", "2", "3", "4", "5", "6", "7", "8", "9">>[k + 1]

\* str(k) for k >= 0
RECURSIVE Str(_)
Str(k) == IF k < 10 THEN Digit(k) ELSE Str(k \div 10) \o Digit(k % 10)

BETA_SUFFIX == "/batch_normalization/beta:0"
MEAN_SUFFIX == "/batch_normalization/moving_mean:0"
VAR_SUFFIX == "/batch_normalization/moving_variance:0"

\* TensorFlow makes a name unique in its graph by appending _1, _2, ...
Uniq(base, k) == IF k = 0 THEN base ELSE base \o "_" \o Str(k)

FirstFree(g, scope, base, tail) ==
  CHOOSE k \in 0..Cardinality(DOMAIN g) :
    /\ [scope |-> scope, leaf |-> Uniq(base, k) \o tail] \notin DOMAIN g
    /\ \A j \in 0..(k - 1) :
         [scope |-> scope, leaf |-> Uniq(base, j) \o tail] \in DOMAIN g

Tensor(name, shape) == [name |-> name, shape |-> shape]

\* tf.Variable(initial, name=scope + base): registers a new variable
NewVariable(g, scope, base, shape) ==
  Tensor([scope |-> scope, leaf |-> Uniq(base, FirstFree(g, scope, base, ":0")) \o ":0"],
         shape)

\* a graph entry: the variable's shape and its initializer
AddToGraph(g, t, initial) == g @@ (t.name :> [shape |-> t.shape, initial |-> initial])

\* the variable t registered in the graph; st.made lists the variables the
\* module-level helpers have returned, the latest last
Made(st, t, initial) ==
  [st EXCEPT !.graph = AddToGraph(@, t, initial), !.made = Append(@, t)]

\* the k-th latest variable returned (k = 0: the latest)
Latest(st, k) == st.made[Len(st.made) - k]

\* weight_variable / bias_variable: one new variable of the given shape
weight_variable(st, shape, scope, base) ==
  Made(st, NewVariable(st.graph, scope, base, shape), "truncated_normal")

bias_variable(st, shape, scope, base) ==
  Made(st, NewVariable(st.graph, scope, base, shape), "zeros")

\* the three variables of a batch-normalization layer named `layer` in scope key
LayerVariables(st, key, layer, channels) ==
  [st EXCEPT !.graph =
     AddToGraph(AddToGraph(AddToGraph(@,
         Tensor([scope |-> key, leaf |-> layer \o "/beta:0"], <<channels>>), "zeros"),
         Tensor([scope |-> key, leaf |-> layer \o "/moving_mean:0"], <<channels>>), "zeros"),
         Tensor([scope |-> key, leaf |-> layer \o "/moving_variance:0"], <<channels>>), "ones")]

\* tf.layers.batch_normalization inside tf.variable_scope(key): the layer
\* creates beta, moving_mean and moving_variance of shape [channels] under
\* key/batch_normalization (key/batch_normalization_1, ... when the scope
\* already holds such a layer)
batch_normalization(st, key, channels) ==
  LayerVariables(st, key,
                 Uniq("/batch_normalization",
                      FirstFree(st.graph, key, "/batch_normalization", "/beta:0")),
                 channels)

\* tf.get_default_graph().get_tensor_by_name(scope + leaf)
get_tensor_by_name(g, scope, leaf) ==
  Tensor([scope |-> scope, leaf |-> leaf], g[[scope |-> scope, leaf |-> leaf]].shape)

\* get_batchnorm_key: the key it returns, and the object after the call
get_batchnorm_key(st) == "bn" \o Str(st.batch_norm_count)

KeyTaken(st) == [st EXCEPT !.batch_norm_count = @ + 1]

\* mutant: the running mean registered before the shift
Append4_MeanFirst(w, a, b, c, d) == Append(Append(Append(Append(w, a), c), b), d)

Append4(w, a, b, c, d) == Append(Append(Append(Append(w, a), b), c), d)

\* the four self.weights.append calls for the kernel W_conv of the layer in
\* scope weight_key: kernel, beta, moving mean, moving variance
AppendLayer(st, W_conv, weight_key) ==
  [st EXCEPT !.weights =
     Append4(@, W_conv,
             get_tensor_by_name(st.graph, weight_key, BETA_SUFFIX),
             get_tensor_by_name(st.graph, weight_key, MEAN_SUFFIX),
             get_tensor_by_name(st.graph, weight_key, VAR_SUFFIX))]

conv_block(st, filter_size, input_channels, output_channels) ==
  AppendLayer(
    batch_normalization(
      weight_variable(KeyTaken(st),
                      <<filter_size, filter_size, input_channels, output_channels>>,
                      get_batchnorm_key(st), "/conv_weight"),
      get_batchnorm_key(st), output_channels),
    Latest(weight_variable(KeyTaken(st),
                      <<filter_size, filter_size, input_channels, output_channels>>,
                      get_batchnorm_key(st), "/conv_weight"), 0),
    get_batchnorm_key(st))

\* the two keys and the two kernels of a residual block, in the order the
\* source takes and makes them
FirstKernel(st, channels) ==
  weight_variable(KeyTaken(st), <<3, 3, channels, channels>>,
                  get_batchnorm_key(st), "/conv_weight")

SecondKey(st, channels) == get_batchnorm_key(FirstKernel(st, channels))

SecondKernel(st, channels) ==
  weight_variable(KeyTaken(FirstKernel(st, channels)), <<3, 3, channels, channels>>,
                  SecondKey(st, channels), "/conv_weight")

AppendBlock(st, W_conv_1, weight_key_1, W_conv_2, weight_key_2) ==
  AppendLayer(AppendLayer(st, W_conv_1, weight_key_1), W_conv_2, weight_key_2)

residual_block(st, channels) ==
  AppendBlock(
    batch_normalization(
      batch_normalization(SecondKernel(st, channels), get_batchnorm_key(st), channels),
      SecondKey(st, channels), channels),
    Latest(SecondKernel(st, channels), 1), get_batchnorm_key(st),
    Latest(SecondKernel(st, channels), 0), SecondKey(st, channels))

\* mutant: a tower of one block too many
RECURSIVE residual_tower_OneMore(_, _, _)
residual_tower_OneMore(st, blocks, channels) ==
  IF blocks < 0 THEN st
  ELSE residual_tower_OneMore(residual_block(st, channels), blocks - 1, channels)

\* for _ in range(0, self.RESIDUAL_BLOCKS): an empty range when blocks <= 0
RECURSIVE residual_tower(_, _, _)
residual_tower(st, blocks, channels) ==
  IF blocks <= 0 THEN st
  ELSE residual_tower(residual_block(st, channels), blocks - 1, channels)

\* self.weights.append(W); self.weights.append(b) for the pair made last
AppendDense(st) ==
  [st EXCEPT !.weights = Append(Append(@, Latest(st, 1)), Latest(st, 0))]

\* a fully connected layer: weight_variable, bias_variable, the two appends
dense(st, in, out, scope) ==
  AppendDense(bias_variable(weight_variable(st, <<in, out>>, scope, "/weight"),
                            <<out>>, scope, "/bias"))

\* the input convolution and the tower
tower(st, filters, blocks) ==
  residual_tower(conv_block(st, 3, num_inputs, filters), blocks, filters)

policy_head(st, filters) == dense(conv_block(st, 1, filters, 32), 32 * 8 * 8, 1858, "fc1")

value_head(st, filters) ==
  dense(dense(conv_block(st, 1, filters, 32), 32 * 8 * 8, 128, "fc2"), 128, 1, "fc3")

construct_net(st, filters, blocks) ==
  value_head(policy_head(tower(st, filters, blocks), filters), filters)

(***************************************************************************)
(* Values of the variables.  session.run(self.init) runs each variable's   *)
(* initializer; a training step moves every variable.  The random initial  *)
(* values and the values after training step s are patterns: distinct at   *)
(* distinct positions of a tensor, of either sign, and variances v >= 0    *)
(* with v + epsilon the square of 2 or 3.                                  *)
(***************************************************************************)
Pattern(s, shape, m) ==
  Int2Rat((IF s % 2 = 1 THEN -1 ELSE 1) * (s + 1 + Flat(shape, m)))

VariancePattern(s, m) ==
  LET k == 2 + ((m[1] + s) % 2) IN Rat(k * k * EpsDen - 1, EpsDen)

InitialValue(entry) ==
  [m \in Probe(entry.shape) |->
     CASE entry.initial = "truncated_normal" -> Pattern(0, entry.shape, m)
       [] entry.initial = "zeros" -> Int2Rat(0)
       [] entry.initial = "ones" -> Int2Rat(1)]

TrainedValue(entry, s) ==
  [m \in Probe(entry.shape) |->
     IF entry.initial = "ones" THEN VariancePattern(s, m)
     ELSE Pattern(s, entry.shape, m)]

(***************************************************************************)
(* Export: one line of save_leelaz_weights.                                *)
(***************************************************************************)
\* (i%(num_inputs*9))//9 == rule50_input, as written in save_leelaz_weights
ExportRescales(i) == (i % (num_inputs * filter_area)) \div filter_area = rule50_input

\* the same test as written in replace_weights
ImportRescales(i) == (i % (num_inputs * filter_area)) \div filter_area = rule50_input

\* mutant: the export multiplies where it should divide
ExportScale_Times(line) ==
  [line EXCEPT !.v = [i \in DOMAIN line.v |->
     IF ExportRescales(i) THEN RMul(line.v[i], Int2Rat(rule50_scale)) ELSE line.v[i]]]

\* weight/99 on the rule50 entries of a flat value list
ExportScale(line) ==
  [line EXCEPT !.v = [i \in DOMAIN line.v |->
     IF ExportRescales(i) THEN RDiv(line.v[i], Int2Rat(rule50_scale)) ELSE line.v[i]]]

\* mutant: the import divides, as the export does
ImportScale_Divides(line) ==
  [line EXCEPT !.v = [i \in DOMAIN line.v |->
     IF ImportRescales(i) THEN RDiv(line.v[i], Int2Rat(rule50_scale)) ELSE line.v[i]]]

\* new_weights[e][i]*99 on the rule50 entries of a flat value list
ImportScale(line) ==
  [line EXCEPT !.v = [i \in DOMAIN line.v |->
     IF ImportRescales(i) THEN RMul(line.v[i], Int2Rat(rule50_scale)) ELSE line.v[i]]]

\* tf.multiply(weights, tf.sqrt(var + 1e-5))
FoldBeta(beta, var) ==
  [m \in DOMAIN beta |-> RMul(beta[m], RSqrt(RAdd(var[m], Epsilon)))]

\* mutant: the unfold multiplies, as the fold does
UnfoldBeta_Times(bias, var) ==
  [m \in DOMAIN bias |-> RMul(bias[m], RSqrt(RAdd(var[m], Epsilon)))]

\* tf.divide(bias, tf.sqrt(var + 1e-5))
UnfoldBeta(bias, var) ==
  [m \in DOMAIN bias |-> RDiv(bias[m], RSqrt(RAdd(var[m], Epsilon)))]

\* mutant: kernel rows and columns exchanged
EXPORT_PERM4_YX == <<3, 2, 1, 0>>

EXPORT_PERM4 == <<3, 2, 0, 1>>
EXPORT_PERM2 == <<1, 0>>
IMPORT_PERM4 == <<2, 3, 1, 0>>
IMPORT_PERM2 == <<1, 0>>

\* the value list written for tensor w at 0-based position e of self.weights
ExportLine(e, w, sess) ==
  LET t == sess[w.name]
      nparray ==
        IF w.name.leaf = BETA_SUFFIX
          THEN Ravel(FoldBeta(t, sess[[scope |-> w.name.scope, leaf |-> VAR_SUFFIX]]),
                     w.shape)
        ELSE IF Len(w.shape) = 4
          THEN Ravel(Transpose(t, w.shape, EXPORT_PERM4), PermShape(w.shape, EXPORT_PERM4))
        ELSE IF Len(w.shape) = 2
          THEN Ravel(Transpose(t, w.shape, EXPORT_PERM2), PermShape(w.shape, EXPORT_PERM2))
        ELSE Ravel(t, w.shape)
  IN  IF e = 0 THEN ExportScale(nparray) ELSE nparray

\* mutant: the file is tagged with the version before
ExportFile_OldVersion(ws, sess) ==
  [version |-> VERSION - 1,
   lines |-> [k \in 1..Len(ws) |-> ExportLine(k - 1, ws[k], sess)]]

\* the exchange file: the version tag, then one line per entry of self.weights
ExportFile(ws, sess) ==
  [version |-> VERSION,
   lines |-> [k \in 1..Len(ws) |-> ExportLine(k - 1, ws[k], sess)]]

(***************************************************************************)
(* Import: replace_weights walks self.weights and assigns tensor by tensor.*)
(* st = [session, new_weights, status]; the walk stops at the first        *)
(* exception and leaves what it has assigned so far.                       *)
(***************************************************************************)
\* new_weights[e] for a 0-based e
HasEntry(nw, e) == e + 1 <= Len(nw)

\* tf.constant(values, shape=shape) takes the values only if they fill the shape
Fits(line, shape) == line.n = Prod(shape)

ReplaceOne(e, w, st) ==
  LET nw == st.new_weights
      assign(val) == [st EXCEPT !.session = [@ EXCEPT ![w.name] = val]]
      raise(err) == [st EXCEPT !.status = err]
  IN
  IF w.name.leaf = BETA_SUFFIX THEN
    IF ~HasEntry(nw, e) \/ ~HasEntry(nw, e + 2) THEN raise("IndexError")
    ELSE IF ~Fits(nw[e + 1], w.shape) \/ ~Fits(nw[e + 3], w.shape) THEN raise("ValueError")
    ELSE assign(UnfoldBeta(Constant(nw[e + 1], w.shape), Constant(nw[e + 3], w.shape)))
  ELSE IF Len(w.shape) = 4 THEN
    IF ~HasEntry(nw, e) THEN raise("IndexError")
    ELSE
      LET scaled == IF e = 0 THEN [nw EXCEPT ![1] = ImportScale(@)] ELSE nw
          shape == PermShape(w.shape, EXPORT_PERM4)
          st2 == [st EXCEPT !.new_weights = scaled]
      IN  IF ~Fits(scaled[e + 1], shape) THEN [st2 EXCEPT !.status = "ValueError"]
          ELSE [st2 EXCEPT !.session =
                  [@ EXCEPT ![w.name] =
                     Transpose(Constant(scaled[e + 1], shape), shape, IMPORT_PERM4)]]
  ELSE IF Len(w.shape) = 2 THEN
    IF ~HasEntry(nw, e) THEN raise("IndexError")
    ELSE
      LET shape == PermShape(w.shape, EXPORT_PERM2)
      IN  IF ~Fits(nw[e + 1], shape) THEN raise("ValueError")
          ELSE assign(Transpose(Constant(nw[e + 1], shape), shape, IMPORT_PERM2))
  ELSE
    IF ~HasEntry(nw, e) THEN raise("IndexError")
    ELSE IF ~Fits(nw[e + 1], w.shape) THEN raise("ValueError")
    ELSE assign(Constant(nw[e + 1], w.shape))

\* for e, weights in enumerate(self.weights): ...
RECURSIVE ReplaceFrom(_, _, _)
ReplaceFrom(e, ws, st) ==
  IF e >= Len(ws) \/ st.status # "ok" THEN st
  ELSE ReplaceFrom(e + 1, ws, ReplaceOne(e, ws[e + 1], st))

(***************************************************************************)
(* State after TFProcess.__init__ and the operations of the class.         *)
(***************************************************************************)
NoProbe == [op |-> "none"]

\* cfg['training']; checkpoint_steps = 0 stands for a cfg without the key
TrainingConfigs == {[total_steps |-> MaxSteps, checkpoint_steps |-> 0]}

\* the fields of a TFProcess after __init__, residual_blocks aside
InitRest ==
  /\ RESIDUAL_FILTERS \in 1..MaxFilters
  /\ training \in TrainingConfigs
  /\ weights = <<>>
  /\ batch_norm_count = 0
  /\ graph = <<>>
  /\ session = <<>>
  /\ global_step = 0
  /\ files = <<>>
  /\ new_weights = <<>>
  /\ passes = 0
  /\ status = "none"

Init ==
  /\ RESIDUAL_BLOCKS \in 0..MaxBlocks
  /\ InitRest
  /\ probe = NoProbe

\* how many times the network has been built: each build adds one fc3 bias
Builds == Cardinality({nm \in DOMAIN graph : nm.scope = "fc3"}) \div 2

\* init_net: reset the batch-norm counter, build the network into
\* self.weights, run every variable's initializer (global_step included)
Built(st) ==
  /\ weights' = st.weights
  /\ batch_norm_count' = st.batch_norm_count
  /\ graph' = st.graph
  /\ session' = [nm \in DOMAIN st.graph |-> InitialValue(st.graph[nm])]

BuildNet ==
  /\ Built(construct_net([weights |-> weights, batch_norm_count |-> 0,
                          graph |-> graph, made |-> <<>>],
                         RESIDUAL_FILTERS, RESIDUAL_BLOCKS))
  /\ global_step' = 0
  /\ UNCHANGED <<RESIDUAL_FILTERS, RESIDUAL_BLOCKS, training, files, new_weights,
                 passes, status, probe>>

\* init (and with it init_net) is called once on a TFProcess
init_net == weights = <<>> /\ BuildNet

\* leela_path = path + "-" + str(steps) + ".txt"
LeelaPath(steps) == "name-" \o Str(steps) \o ".txt"

Write(fs, filename, content) == [fn \in DOMAIN fs \cup {filename} |->
                                   IF fn = filename THEN content ELSE fs[fn]]

\* mutant: the test run on the step count read before the training step
AtCheckpoint_BeforeStep(steps) ==
  \/ (steps - 1) % training.total_steps = 0
  \/ (training.checkpoint_steps # 0 /\ (steps - 1) % training.checkpoint_steps = 0)

\* the test of process on the step count after the training step
AtCheckpoint(steps) ==
  \/ steps % training.total_steps = 0
  \/ (training.checkpoint_steps # 0 /\ steps % training.checkpoint_steps = 0)

\* process: one training step, then at a checkpoint boundary
\* save_leelaz_weights(leela_path) (saver.save writes TensorFlow's own
\* checkpoint, which only restore reads).  The steps of process_loop come
\* before any import of the run: a run that has replaced the weights
\* trains no further.
process ==
  /\ Builds >= 1
  /\ passes = 0
  /\ global_step < MaxSteps
  /\ LET steps == global_step + 1
         trained == [nm \in DOMAIN graph |-> TrainedValue(graph[nm], steps)]
     IN  /\ session' = trained
         /\ global_step' = steps
         /\ IF AtCheckpoint(steps)
              THEN files' = Write(files, LeelaPath(steps), ExportFile(weights, trained))
              ELSE UNCHANGED files
  /\ UNCHANGED <<RESIDUAL_FILTERS, RESIDUAL_BLOCKS, training, weights, batch_norm_count,
                 graph, new_weights, passes, status, probe>>

\* restore(file): saver.restore sets every variable, global_step included,
\* to what the checkpoint file holds: the values after some step g
restore ==
  /\ Builds >= 1
  /\ \E g \in 1..MaxSteps :
       /\ session' = [nm \in DOMAIN graph |-> TrainedValue(graph[nm], g)]
       /\ global_step' = g
  /\ UNCHANGED <<RESIDUAL_FILTERS, RESIDUAL_BLOCKS, training, weights, batch_norm_count,
                 graph, files, new_weights, passes, status, probe>>

\* save_leelaz_weights(filename), called directly
save_leelaz_weights ==
  /\ files' = Write(files, "restored.txt", ExportFile(weights, session))
  /\ UNCHANGED <<RESIDUAL_FILTERS, RESIDUAL_BLOCKS, training, weights, batch_norm_count,
                 graph, session, global_step, new_weights, passes, status, probe>>

\* the lists a caller hands to replace_weights: the lines of an exchange
\* file, all of them or all but the last, or the list object of the call before
CallerLists ==
  {SubSeq(files[fn].lines, 1, Len(files[fn].lines) - drop) :
     fn \in DOMAIN files, drop \in 0..1}
  \cup (IF passes > 0 THEN {new_weights} ELSE {})

\* replace_weights(nw); the list object nw is the caller's afterwards
ReplaceWith(nw) ==
  /\ passes < MaxPasses
  /\ passes' = passes + 1
  /\ LET st == ReplaceFrom(0, weights,
                           [session |-> session, new_weights |-> nw, status |-> "ok"])
     IN  /\ session' = st.session
         /\ new_weights' = st.new_weights
         /\ status' = st.status
  /\ UNCHANGED <<RESIDUAL_FILTERS, RESIDUAL_BLOCKS, training, weights, batch_norm_count,
                 graph, global_step, files, probe>>

replace_weights == \E nw \in CallerLists : ReplaceWith(nw)

\* Reading an exchange file (the reader is not part of tfprocess.py): the
\* version line must be the supported version and the file must hold one
\* line per tensor of the network, each with as many values as the tensor
\* has elements, or nothing is loaded
SUPPORTED_VERSION == 2

ParseOk(f) ==
  /\ f.version = SUPPORTED_VERSION
  /\ Len(f.lines) = Len(weights)
  /\ \A k \in 1..Len(weights) : f.lines[k].n = Prod(weights[k].shape)

\* the file fn as found on disk, its version line reading v
LoadFile(fn, v) ==
  LET f == [files[fn] EXCEPT !.version = v]
  IN  IF ParseOk(f) THEN ReplaceWith(f.lines)
      ELSE /\ status' = "FormatError"
           /\ UNCHANGED <<RESIDUAL_FILTERS, RESIDUAL_BLOCKS, training, weights,
                          batch_norm_count, graph, session, global_step, files,
                          new_weights, passes, probe>>

load_weights == \E fn \in DOMAIN files, v \in 1..MaxVersion : LoadFile(fn, v)

Next ==
  \/ init_net
  \/ process
  \/ save_leelaz_weights
  \/ replace_weights
  \/ load_weights

Spec == Init /\ [][Next]_vars

(***************************************************************************)
(* Building the network: any residual_blocks value the cfg may hold, a     *)
(* negative one included, init_net called again on the same object, and    *)
(* training resumed from a checkpoint.                                     *)
(***************************************************************************)
InitBuild ==
  /\ RESIDUAL_BLOCKS \in -1..MaxBlocks
  /\ InitRest
  /\ probe = NoProbe

init_net_again == Builds < MaxBuilds /\ BuildNet

NextBuild ==
  \/ init_net_again
  \/ process
  \/ restore
  \/ save_leelaz_weights

SpecBuild == InitBuild /\ [][NextBuild]_vars

(***************************************************************************)
(* The training loop: any total_steps, with or without checkpoint_steps in *)
(* the cfg, and training resumed from a checkpoint.                        *)
(***************************************************************************)
LoopConfigs ==
  {[total_steps |-> t, checkpoint_steps |-> c] : t \in 1..MaxSteps, c \in 0..MaxSteps}

InitLoop ==
  /\ RESIDUAL_FILTERS \in 1..MaxFilters
  /\ RESIDUAL_BLOCKS \in 0..MaxBlocks
  /\ training \in LoopConfigs
  /\ weights = <<>>
  /\ batch_norm_count = 0
  /\ graph = <<>>
  /\ session = <<>>
  /\ global_step = 0
  /\ files = <<>>
  /\ new_weights = <<>>
  /\ passes = 0
  /\ status = "none"
  /\ probe = NoProbe

NextLoop ==
  \/ init_net
  \/ process
  \/ restore

SpecLoop == InitLoop /\ [][NextLoop]_vars

(***************************************************************************)
(* The rule50 rescale on its own: the two loops of save_leelaz_weights and *)
(* replace_weights applied to the flat value list of a first-layer kernel  *)
(* of exchange shape [filters, 112, kh, kw], every position of it.         *)
(***************************************************************************)
ProbeKernel(O, kh, kw) ==
  [n |-> O * num_inputs * kh * kw,
   v |-> [i \in 0..(O * num_inputs * kh * kw - 1) |-> Int2Rat(1 + (i % 5))]]

InitScale ==
  /\ RESIDUAL_BLOCKS = 0
  /\ InitRest
  /\ \E kh \in 1..MaxKernel, kw \in 1..MaxKernel :
       probe = [op |-> "none", kh |-> kh, kw |-> kw, level |-> 0,
                line |-> ProbeKernel(RESIDUAL_FILTERS, kh, kw)]

OthersUnchanged ==
  UNCHANGED <<RESIDUAL_FILTERS, RESIDUAL_BLOCKS, training, weights, batch_norm_count,
              graph, session, global_step, files, new_weights, passes, status>>

\* the loop of save_leelaz_weights over the list
export_probe ==
  /\ probe.level > -MaxLevel
  /\ probe' = [probe EXCEPT !.op = "export", !.level = @ - 1, !.line = ExportScale(@)]
  /\ OthersUnchanged

\* the loop of replace_weights over the list
import_probe ==
  /\ probe.level < MaxLevel
  /\ probe' = [probe EXCEPT !.op = "import", !.level = @ + 1, !.line = ImportScale(@)]
  /\ OthersUnchanged

NextScale ==
  \/ export_probe
  \/ import_probe

SpecScale == InitScale /\ [][NextScale]_vars

(***************************************************************************)
(* The claims.                                                             *)
(***************************************************************************)
\* the role of a registered tensor, read off its variable name
Role(t) ==
  CASE t.name.leaf = BETA_SUFFIX -> "shift"
    [] t.name.leaf = MEAN_SUFFIX -> "mean"
    [] t.name.leaf = VAR_SUFFIX -> "variance"
    [] t.name.leaf = "/weight:0" -> "dense"
    [] t.name.leaf = "/bias:0" -> "bias"
    [] OTHER -> "kernel"

Describe(ws) ==
  [k \in 1..Len(ws) |->
     [layer |-> ws[k].name.scope, role |-> Role(ws[k]), shape |-> ws[k].shape]]

\* a conv-block as the exchange format lists it
ConvBlockLines(j, k, in, out) ==
  LET layer == "bn" \o Str(j)
  IN  << [layer |-> layer, role |-> "kernel", shape |-> <<k, k, in, out>>],
         [layer |-> layer, role |-> "shift", shape |-> <<out>>],
         [layer |-> layer, role |-> "mean", shape |-> <<out>>],
         [layer |-> layer, role |-> "variance", shape |-> <<out>>] >>

DenseLines(layer, in, out) ==
  << [layer |-> layer, role |-> "dense", shape |-> <<in, out>>],
     [layer |-> layer, role |-> "bias", shape |-> <<out>>] >>

RECURSIVE TowerLines(_, _, _)
TowerLines(b, B, F) ==
  IF b > B THEN <<>>
  ELSE ConvBlockLines(2 * b - 1, 3, F, F) \o ConvBlockLines(2 * b, 3, F, F)
         \o TowerLines(b + 1, B, F)

\* the topology order of the exchange format for F filters and B blocks
TopologyOrder(F, B) ==
  ConvBlockLines(0, 3, 112, F) \o TowerLines(1, B, F)
    \o ConvBlockLines(2 * B + 1, 1, F, 32) \o DenseLines("fc1", 2048, 1858)
    \o ConvBlockLines(2 * B + 2, 1, F, 32) \o DenseLines("fc2", 2048, 128)
    \o DenseLines("fc3", 128, 1)

\* the exchange files written by the step
WrittenFiles ==
  {fn \in DOMAIN files' : fn \notin DOMAIN files \/ files'[fn] # files[fn]}

\* C4: after construct_net, self.weights lists the tensors in the topology
\* order (input conv-block, the residual blocks' conv-blocks in tower order,
\* policy conv-block, policy dense, value conv-block, the two value dense
\* layers; per conv-block kernel, shift, mean, variance), and an export
\* writes one line per tensor in that order: the line at each position has
\* the element count of the tensor registered at that position.
C4_TopologyOrder ==
  /\ [](weights # <<>> =>
          Describe(weights) = TopologyOrder(RESIDUAL_FILTERS, RESIDUAL_BLOCKS))
  /\ [][\A fn \in WrittenFiles :
          /\ Len(files'[fn].lines) = Len(weights')
          /\ \A k \in 1..Len(weights') :
               files'[fn].lines[k].n = Prod(weights'[k].shape)]_vars

C4_Witness ==
  /\ RESIDUAL_BLOCKS = 1
  /\ weights # <<>>
  /\ \E fn \in DOMAIN files : Len(files[fn].lines) = Len(weights)

\* C5: for F > 0 and B >= 0, once the network is built self.weights holds
\* exactly 4 + 8*B + 14 tensors, and a file exported from then on holds
\* exactly that many lines after its version line.
C5_TensorCount ==
  /\ []((weights # <<>> /\ RESIDUAL_FILTERS > 0 /\ RESIDUAL_BLOCKS >= 0) =>
          Len(weights) = 4 + 8 * RESIDUAL_BLOCKS + 14)
  /\ [][(weights # <<>> /\ RESIDUAL_FILTERS > 0 /\ RESIDUAL_BLOCKS >= 0) =>
          \A fn \in WrittenFiles :
            Len(files'[fn].lines) = 4 + 8 * RESIDUAL_BLOCKS + 14]_vars

C5_Witness ==
  /\ RESIDUAL_BLOCKS = 0
  /\ Len(weights) = 18
  /\ "restored.txt" \in DOMAIN files
  /\ Len(files["restored.txt"].lines) = 18

\* the flat exchange position of native multi-index m of tensor w:
\* [H, W, I, O] -> ((o*I + i)*H + y)*W + x, [In, Out] -> o*In + i
ExchangePos(w, m) ==
  IF Len(w.shape) = 4
    THEN ((m[4] * w.shape[3] + m[3]) * w.shape[1] + m[1]) * w.shape[2] + m[2]
  ELSE IF Len(w.shape) = 2 THEN m[2] * w.shape[1] + m[1]
  ELSE m[1]

\* C3 as stated: on export the value written at the exchange position of
\* every element of every 4-axis and 2-axis kernel, and of every 1-axis
\* tensor that is not a normalization shift, equals the native value.
C3_LayoutAsStated ==
  [][\A fn \in WrittenFiles : \A k \in 1..Len(weights') :
       LET w == weights'[k] IN
       w.name.leaf # BETA_SUFFIX =>
         \A m \in Probe(w.shape) :
           files'[fn].lines[k].v[ExchangePos(w, m)] = session'[w.name][m]]_vars

\* C3, amended: the same, except that for slot 0 the entries of input
\* channel 109 are written as the native value divided by 99.
C3_Layout ==
  [][\A fn \in WrittenFiles : \A k \in 1..Len(weights') :
       LET w == weights'[k] IN
       w.name.leaf # BETA_SUFFIX =>
         \A m \in Probe(w.shape) :
           files'[fn].lines[k].v[ExchangePos(w, m)] =
             IF k = 1 /\ m[3] = 109
               THEN RDiv(session'[w.name][m], Int2Rat(99))
               ELSE session'[w.name][m]]_vars

C3_Witness ==
  /\ global_step >= 1
  /\ \E fn \in DOMAIN files :
       /\ Len(files[fn].lines) = Len(weights)
       /\ Len(weights) > 0
       /\ \E k \in 1..Len(weights) : \E m \in Probe(weights[k].shape) :
            /\ Len(weights[k].shape) = 4
            /\ ~(k = 1 /\ m[3] = 109)
            /\ ExchangePos(weights[k], m) # Flat(weights[k].shape, m)
            /\ session[weights[k].name][m] # Int2Rat(0)
            /\ files[fn].lines[k].v[ExchangePos(weights[k], m)]
                 = session[weights[k].name][m]
       /\ \E m \in Probe(weights[1].shape) :
            /\ m[3] = 109
            /\ session[weights[1].name][m] # Int2Rat(0)
            /\ files[fn].lines[1].v[ExchangePos(weights[1], m)]
                 = RDiv(session[weights[1].name][m], Int2Rat(99))
       /\ \E k \in 1..Len(weights) : \E m \in Probe(weights[k].shape) :
            /\ Len(weights[k].shape) = 2
            /\ ExchangePos(weights[k], m) # Flat(weights[k].shape, m)
            /\ files[fn].lines[k].v[ExchangePos(weights[k], m)]
                 = session[weights[k].name][m]

\* the live value behind flat exchange index i of tensor w, layout-converted
\* and, for a normalization shift, folded with the variance of its layer
LiveAt(w, sess, i) ==
  IF w.name.leaf = BETA_SUFFIX
    THEN RMul(sess[w.name][<<i>>],
              RSqrt(RAdd(sess[[scope |-> w.name.scope, leaf |-> VAR_SUFFIX]][<<i>>],
                         Epsilon)))
  ELSE IF Len(w.shape) = 4
    THEN LET H == w.shape[1]
             W == w.shape[2]
             I == w.shape[3]
         IN  sess[w.name][<<(i \div W) % H, i % W, (i \div (H * W)) % I,
                            i \div (I * H * W)>>]
  ELSE IF Len(w.shape) = 2
    THEN sess[w.name][<<i % w.shape[1], i \div w.shape[1]>>]
  ELSE sess[w.name][<<i>>]

\* the input channel that flat exchange index i of a 4-axis kernel addresses
InputChannel(w, i) == (i \div (w.shape[1] * w.shape[2])) % w.shape[3]

\* C2 as stated: on export, every slot-0 value addressing input channel 109
\* is the live value multiplied by 99, every other value is the live value.
C2_ScaleAsStated ==
  [][\A fn \in WrittenFiles : \A k \in 1..Len(weights') :
       \A i \in DOMAIN files'[fn].lines[k].v :
         files'[fn].lines[k].v[i] =
           IF k = 1 /\ InputChannel(weights'[k], i) = 109
             THEN RMul(LiveAt(weights'[k], session', i), Int2Rat(99))
             ELSE LiveAt(weights'[k], session', i)]_vars

\* C2, amended: on export, every slot-0 value addressing input channel 109
\* is the live value divided by 99; every other value of slot 0 and every
\* value of every other slot is the converted or folded live value unscaled.
C2_Scale ==
  [][\A fn \in WrittenFiles : \A k \in 1..Len(weights') :
       \A i \in DOMAIN files'[fn].lines[k].v :
         files'[fn].lines[k].v[i] =
           IF k = 1 /\ InputChannel(weights'[k], i) = 109
             THEN RDiv(LiveAt(weights'[k], session', i), Int2Rat(99))
             ELSE LiveAt(weights'[k], session', i)]_vars

C2_Witness ==
  /\ global_step >= 1
  /\ \E fn \in DOMAIN files :
       /\ Len(files[fn].lines) = Len(weights)
       /\ Len(weights) > 0
       /\ \E i \in DOMAIN files[fn].lines[1].v :
            /\ InputChannel(weights[1], i) = 109
            /\ files[fn].lines[1].v[i] # Int2Rat(0)
            /\ files[fn].lines[1].v[i] =
                 RDiv(LiveAt(weights[1], session, i), Int2Rat(99))

\* C1: export followed by import is the identity: when replace_weights is
\* handed the value lists that save_leelaz_weights writes for the current
\* tensors, every tensor ends with the value it had, and the call succeeds.
C1_RoundTrip ==
  [][(weights # <<>> /\ ReplaceWith(ExportFile(weights, session).lines)) =>
       (session' = session /\ status' = "ok")]_vars

C1_Witness ==
  /\ global_step >= 1
  /\ passes >= 1
  /\ status = "ok"
  /\ \E fn \in DOMAIN files :
       /\ files[fn].lines = ExportFile(weights, session).lines
       /\ new_weights = [files[fn].lines EXCEPT ![1] = ImportScale(@)]
       /\ new_weights # files[fn].lines

C8_AllOrNothing ==
  [][\A nw \in CallerLists :
       (Len(nw) < Len(weights) /\ ReplaceWith(nw)) =>
         (status' # "ok" /\ session' = session)]_vars

\* C9 as stated: building the network again on the same TFProcess leaves
\* the tensor sequence used by export with the same length and the same
\* role and shape at every position.
C9_NoHiddenState ==
  [][(weights # <<>> /\ weights' # weights) =>
       Describe(weights') = Describe(weights)]_vars

\* C10 as stated: with filters <= 0 or residual_blocks < 0 construction
\* fails before any tensor is registered and before any tensor line is
\* written; a negative residual_blocks never yields the topology of 0 blocks.
C10_ConfigurationError ==
  (RESIDUAL_FILTERS <= 0 \/ RESIDUAL_BLOCKS < 0) =>
    /\ weights = <<>>
    /\ \A fn \in DOMAIN files : files[fn].lines = <<>>
    /\ Describe(weights) # TopologyOrder(RESIDUAL_FILTERS, 0)

ValuesAfter(s) == [nm \in DOMAIN graph |-> TrainedValue(graph[nm], s)]

\* C11: a call of process exports if and only if the global step after its
\* training step is a multiple of total_steps, or checkpoint_steps is
\* configured and the step is a multiple of it; the export writes the values
\* the training step of that call has left, complete when the call returns,
\* to the file named after that step, and no other file changes; the file
\* named after a step only ever holds the export of that step.
C11_Checkpoint ==
  /\ [](\A fn \in DOMAIN files : \A s \in 1..MaxSteps :
          fn = "name-" \o Str(s) \o ".txt" =>
            files[fn] = ExportFile(weights, ValuesAfter(s)))
  /\ [][process =>
          /\ global_step' = global_step + 1
          /\ session' = ValuesAfter(global_step')
          /\ IF \/ global_step' % training.total_steps = 0
                \/ /\ training.checkpoint_steps # 0
                   /\ global_step' % training.checkpoint_steps = 0
                THEN LET fn == "name-" \o Str(global_step') \o ".txt"
                     IN  /\ DOMAIN files' = DOMAIN files \cup {fn}
                         /\ files'[fn] = ExportFile(weights, session')
                         /\ \A other \in DOMAIN files \ {fn} :
                              files'[other] = files[other]
                ELSE files' = files]_vars

C11_Witness ==
  /\ weights # <<>>
  /\ global_step = 2
  /\ training.total_steps = 2
  /\ training.checkpoint_steps = 1
  /\ {"name-1.txt", "name-2.txt"} \subseteq DOMAIN files
  /\ files["name-1.txt"] # files["name-2.txt"]
  /\ files["name-2.txt"] = ExportFile(weights, session)

\* the positions of self.weights (1-based) that hold a normalization shift
ShiftPositions == {k \in 1..Len(weights) : weights[k].name.leaf = BETA_SUFFIX}

\* sqrt(v + 1e-5)
Deviation(v) == RSqrt(RAdd(v, Epsilon))

\* C12: two positions after every normalization shift of self.weights
\* stands the running variance of the same conv-block (and the running mean
\* in between); export writes the shift multiplied by sqrt(v + 1e-5) for the
\* live value v of that variance, and a successful import assigns the shift
\* the list value at its position divided by sqrt(v' + 1e-5) for the list
\* value v' two positions later (new_weights is the list the call was
\* handed; the call writes to the first list of it only).
C12_SameLayerVariance ==
  /\ [](\A k \in ShiftPositions :
          /\ k + 2 <= Len(weights)
          /\ weights[k + 1].name = [scope |-> weights[k].name.scope, leaf |-> MEAN_SUFFIX]
          /\ weights[k + 2].name = [scope |-> weights[k].name.scope, leaf |-> VAR_SUFFIX]
          /\ weights[k + 2].shape = weights[k].shape)
  /\ [][\A fn \in WrittenFiles : \A k \in ShiftPositions :
          \A i \in DOMAIN files'[fn].lines[k].v :
            files'[fn].lines[k].v[i] =
              RMul(session'[weights[k].name][<<i>>],
                   Deviation(session'[weights[k + 2].name][<<i>>]))]_vars
  /\ [][(passes' = passes + 1 /\ status' = "ok") =>
          \A k \in ShiftPositions : \A i \in DOMAIN new_weights'[k].v :
            session'[weights[k].name][<<i>>] =
              RDiv(new_weights'[k].v[i], Deviation(new_weights'[k + 2].v[i]))]_vars

C12_Witness ==
  /\ passes >= 1
  /\ status = "ok"
  /\ RESIDUAL_BLOCKS >= 1
  /\ \E fn \in DOMAIN files :
       /\ Len(files[fn].lines) = Len(weights)
       /\ \E k \in ShiftPositions : \E i \in DOMAIN new_weights[k].v :
            /\ k > 2
            /\ new_weights[k].v[i] = files[fn].lines[k].v[i]
            /\ new_weights[k + 2].v[i] = session[weights[k + 2].name][<<i>>]
            /\ session[weights[k].name][<<i>>] # Int2Rat(0)
            /\ session[weights[k].name][<<i>>] # new_weights[k].v[i]
            /\ session[weights[k].name][<<i>>] =
                 RDiv(new_weights[k].v[i], Deviation(new_weights[k + 2].v[i]))

\* C13 as stated: a successful replace_weights leaves the caller's list as
\* it was handed over, and a second call with the same list object assigns
\* every tensor the value the first call assigned.
C13_PureImport ==
  [][\A nw \in CallerLists :
       (ReplaceWith(nw) /\ status' = "ok") =>
         /\ new_weights' = nw
         /\ ReplaceFrom(0, weights,
                        [session |-> session', new_weights |-> new_weights',
                         status |-> "ok"]).session = session']_vars

====
